---- MODULE Spec2Model ----
(***************************************************************************)
(* Location / move ledger of the JTECH box-tracking API.                   *)
(*                                                                         *)
(* location_utils.py keeps, per box, a current location and an append-only *)
(* move history, on one of two backends (SQLite, Postgres) selected once   *)
(* from DATABASE_URL.  mobile_api.py resolves a serial range or an id list *)
(* and calls the ledger once per box.                                      *)
(*                                                                         *)
(* Box ids are sequences of one-character strings, so that the prefix      *)
(* derivation, LIKE matching, substr and CAST of the range query are       *)
(* computed character by character.  Timestamps (MovedAt, UpdatedAt) are   *)
(* not modelled: no modelled operation reads them.                         *)
(***************************************************************************)
EXTENDS Integers, Sequences, FiniteSets, TLC

\* ------------------------------------------------------------------ bounds
MaxCalls == 3      \* ledger calls in a sequential run
MaxReq == 2        \* resolver requests in a run
MaxSerial == 2     \* largest start / end of a range request
MaxBulk == 2       \* longest id list of a bulk request
MaxTxCalls == 1   \* calls of one concurrent caller

\* ------------------------------------------------------------------ values
NULL == "<NULL>"       \* SQL NULL / Python None
NoRow == "<no row>"    \* fetchone() found no row
Error == "<error>"     \* the statement raised
Locs == {"L1", "L2"}   \* well-formed (non-empty) to_loc values
StoredLocs == {NULL, "", "L1"}   \* Location values found in boxid_log
OPERATOR == "op"
DEFAULT_LIMIT == 20    \* get_move_history(boxid, limit=20)

A0001 == <<"A", "-", "0", "0", "0", "1">>
A0002 == <<"A", "-", "0", "0", "0", "2">>
a0002 == <<"a", "-", "0", "0", "0", "2">>
AABCD == <<"A", "-", "A", "B", "C", "D">>
BoxIds == {A0001, A0002, a0002, AABCD}
StoreIds == {A0001, A0002}

\* Python truthiness of an Optional[str]: None and "" are falsy.
Truthy(v) == v # NULL /\ v # NoRow /\ v # "" /\ v # Error

\* ------------------------------------------------------------------ state
VARIABLES
    USE_PG,      \* backend selected at import time
    schema,      \* Postgres: which of BOXES_TABLE / its columns exist
    boxid_log,   \* boxid_log.Location per BoxID, NoRow when there is no row
    boxes,       \* Postgres BOXES_TABLE: location per box_id, NoRow if none
    move_log,    \* committed rows of box_move_log (SQLite) / move_log (PG)
    next_id,     \* AUTOINCREMENT / BIGSERIAL counter of the history table
    done,        \* history of completed ledger calls (observer)
    resp,        \* response of the last resolver request
    tx,          \* per caller: the call in progress and its transaction
    wlock,       \* SQLite: caller holding the database write lock
    write_order  \* callers in the order their location statements ran

vars == <<USE_PG, schema, boxid_log, boxes, move_log, next_id, done, resp,
          tx, wlock, write_order>>

Callers == {"c1", "c2"}
NoCaller == "<none>"
IdleTx == [pc |-> "idle", kind |-> "move", boxid |-> A0001, to_loc |-> "L1",
           reason |-> "", from_loc |-> NULL, row_id |-> 0,
           wrote_log |-> FALSE, wrote_loc |-> FALSE, calls |-> 0,
           conns |-> 0,    \* connections this caller opened and nobody closed
           opened |-> 0]   \* connections the call in progress has acquired

\* -------------------------------------------------------- schema probing
Schemas == { [table |-> TRUE, idcol |-> TRUE, loccol |-> TRUE],
             [table |-> TRUE, idcol |-> FALSE, loccol |-> TRUE],
             [table |-> TRUE, idcol |-> TRUE, loccol |-> FALSE],
             [table |-> FALSE, idcol |-> FALSE, loccol |-> FALSE] }

\* The table and both columns are there: the SQL on BOXES_TABLE can run.
TableUsable(sch) == sch.table /\ sch.idcol /\ sch.loccol

_table_exists(sch) == sch.table

_column_exists(sch, column) ==
    IF column = "id" THEN sch.idcol ELSE sch.loccol

\* ------------------------------------------------------------ ledger reads
\* SELECT Location FROM boxid_log WHERE BoxID=? : the stored value or NoRow
SqliteSelectLocation(log, b) == log[b]

\* row[0] if row and row[0] else None
SqliteFromLoc(log, b) ==
    LET row == SqliteSelectLocation(log, b)
    IN  IF Truthy(row) THEN row ELSE NULL

\* SELECT {loc} FROM {table} WHERE {id}=%s : fails on a missing relation/column
PgSelectLocation(sch, bx, b) ==
    IF TableUsable(sch) THEN bx[b] ELSE Error

\* probes the schema first; then row[0] if row else None
_get_current_location_pg(sch, bx, b) ==
    IF ~_table_exists(sch) THEN NULL
    ELSE IF ~(_column_exists(sch, "id") /\ _column_exists(sch, "loc")) THEN NULL
    ELSE LET row == PgSelectLocation(sch, bx, b)
         IN  IF row = NoRow THEN NULL ELSE row

CurrentLocation(pg, sch, log, bx, b) ==
    IF pg THEN _get_current_location_pg(sch, bx, b) ELSE SqliteFromLoc(log, b)

get_current_location(b) ==
    CurrentLocation(USE_PG, schema, boxid_log, boxes, b)

\* The Location value stored for the box in the table the ledger writes.
StoredLocation(pg, log, bx, b) == IF pg THEN bx[b] ELSE log[b]

RowsOf(log, b) == {r \in log : r.BoxID = b}

MaxId(rows) == CHOOSE i \in {r.id : r \in rows} : \A r \in rows : r.id <= i

RECURSIVE OrderByIdDesc(_)
OrderByIdDesc(rows) ==
    IF rows = {} THEN <<>>
    ELSE LET top == CHOOSE r \in rows : r.id = MaxId(rows)
         IN  <<top>> \o OrderByIdDesc(rows \ {top})

Limit(s, n) ==
    IF n <= 0 THEN <<>> ELSE SubSeq(s, 1, IF n < Len(s) THEN n ELSE Len(s))

\* ... WHERE BoxID=? ORDER BY id DESC LIMIT ?
MoveHistory(log, b, limit) ==
    LET rows == Limit(OrderByIdDesc(RowsOf(log, b)), limit)
    IN  [i \in 1..Len(rows) |->
            [From |-> rows[i].From, To |-> rows[i].To,
             By |-> rows[i].By, Reason |-> rows[i].Reason]]

get_move_history(b, limit) == MoveHistory(move_log, b, limit)

\* ----------------------------------------------------------- ledger writes
LogRow(id, b, from_loc, to_loc, operator, reason) ==
    [id |-> id, BoxID |-> b, From |-> from_loc, To |-> to_loc,
     By |-> operator, Reason |-> reason]

\* Variant: the UPDATE without its WHERE clause.
SqliteUpdateAllRows(log, b, to_loc) ==
    [x \in DOMAIN log |-> IF log[x] = NoRow THEN NoRow ELSE to_loc]

\* UPDATE boxid_log SET Location=? WHERE BoxID=? : changes existing rows only
SqliteUpdateLocation(log, b, to_loc) ==
    IF log[b] = NoRow THEN log ELSE [log EXCEPT ![b] = to_loc]

\* INSERT INTO {table} ... ON CONFLICT ({id}) DO UPDATE SET {loc} = EXCLUDED.{loc}
PgUpsert(sch, bx, b, to_loc) ==
    IF TableUsable(sch)
    THEN [ok |-> TRUE, wrote |-> TRUE, rows |-> [bx EXCEPT ![b] = to_loc]]
    ELSE [ok |-> FALSE, wrote |-> FALSE, rows |-> bx]

\* Variant: the upsert without the schema probes.
UpsertUnprobed(sch, bx, b, to_loc) == PgUpsert(sch, bx, b, to_loc)

\* probes the schema first and returns without writing when it is missing
_upsert_location_pg(sch, bx, b, to_loc) ==
    IF ~_table_exists(sch) THEN [ok |-> TRUE, wrote |-> FALSE, rows |-> bx]
    ELSE IF ~(_column_exists(sch, "id") /\ _column_exists(sch, "loc"))
         THEN [ok |-> TRUE, wrote |-> FALSE, rows |-> bx]
    ELSE PgUpsert(sch, bx, b, to_loc)

\* note column of move_location on Postgres: reason if reason else None
PgMoveNote(reason) == IF reason = "" THEN NULL ELSE reason

StoredReason(pg, kind, reason) ==
    IF pg /\ kind = "move" THEN PgMoveNote(reason) ELSE reason

\* The value read into from_loc by either backend.
ReadFromLoc(pg, sch, log, bx, b) ==
    IF pg THEN _get_current_location_pg(sch, bx, b) ELSE SqliteFromLoc(log, b)

\* The stored tables as one value, so that a handler can make several calls.
DB == [boxid_log |-> boxid_log, boxes |-> boxes, move_log |-> move_log,
       next_id |-> next_id, done |-> done]

Commit(db) ==
    /\ boxid_log' = db.boxid_log
    /\ boxes' = db.boxes
    /\ move_log' = db.move_log
    /\ next_id' = db.next_id
    /\ done' = db.done

CallRecord(db, kind, b, to_loc, reason, ok, id) ==
    [kind |-> kind, boxid |-> b, to_loc |-> to_loc, reason |-> reason,
     ok |-> ok,
     pre_loc |-> StoredLocation(USE_PG, db.boxid_log, db.boxes, b),
     row_id |-> id]

\* One whole assign_initial_location / move_location call.  A statement that
\* raises sends the call to its except branch: rollback, re-raise.
LedgerCall(db, kind, b, to_loc, operator, reason) ==
    LET from_loc == ReadFromLoc(USE_PG, schema, db.boxid_log, db.boxes, b)
        up == _upsert_location_pg(schema, db.boxes, b, to_loc)
        ok == IF USE_PG THEN from_loc # Error /\ up.ok ELSE TRUE
    IN  IF ok
        THEN [boxid_log |-> IF USE_PG THEN db.boxid_log
                            ELSE SqliteUpdateLocation(db.boxid_log, b, to_loc),
              boxes |-> IF USE_PG THEN up.rows ELSE db.boxes,
              move_log |-> db.move_log \cup
                    {LogRow(db.next_id, b, from_loc, to_loc, operator,
                            StoredReason(USE_PG, kind, reason))},
              next_id |-> db.next_id + 1,
              done |-> Append(db.done,
                          CallRecord(db, kind, b, to_loc, reason, TRUE,
                                     db.next_id))]
        ELSE [db EXCEPT
              \* a BIGSERIAL value drawn by the rolled-back INSERT is not reused
              !.next_id = IF from_loc # Error THEN @ + 1 ELSE @,
              !.done = Append(@, CallRecord(db, kind, b, to_loc, reason, FALSE, 0))]

\* The call raised.
Raised(db) == ~db.done[Len(db.done)].ok

assign_initial_location(db, b, to_loc, operator, reason) ==
    LedgerCall(db, "assign", b, to_loc, operator, reason)

move_location(db, b, to_loc, operator, reason) ==
    LedgerCall(db, "move", b, to_loc, operator, reason)

\* --------------------------------------------------------- identifier codec
Digits == {"0", "1", "2", "3", "4", "5", "6", "7", "8", "9"}

DigitVal(c) ==
    CASE c = "0" -> 0 [] c = "1" -> 1 [] c = "2" -> 2 [] c = "3" -> 3
      [] c = "4" -> 4 [] c = "5" -> 5 [] c = "6" -> 6 [] c = "7" -> 7
      [] c = "8" -> 8 [] c = "9" -> 9

\* ASCII code of the characters that occur in the modelled ids.
Ord(c) ==
    CASE c = "%" -> 37 [] c = "-" -> 45 [] c \in Digits -> 48 + DigitVal(c)
      [] c = "A" -> 65 [] c = "B" -> 66 [] c = "C" -> 67 [] c = "D" -> 68
      [] c = "_" -> 95
      [] c = "a" -> 97 [] c = "b" -> 98 [] c = "c" -> 99 [] c = "d" -> 100

\* ASCII upper-casing, as SQLite's LIKE applies it to both operands.
Upper(c) ==
    CASE c = "a" -> "A" [] c = "b" -> "B" [] c = "c" -> "C" [] c = "d" -> "D"
      [] OTHER -> c

HasDash(s) == \E i \in 1..Len(s) : s[i] = "-"

LastDash(s) == CHOOSE i \in 1..Len(s) : s[i] = "-" /\ \A j \in (i + 1)..Len(s) : s[j] # "-"

\* boxid.rsplit("-", 1)[0] + "-", or boxid itself when it has no "-"
prefix_from_boxid(boxid) ==
    IF ~HasDash(boxid) THEN boxid ELSE SubSeq(boxid, 1, LastDash(boxid))

\* str.startswith
StartsWith(s, p) == Len(p) <= Len(s) /\ SubSeq(s, 1, Len(p)) = p

\* ----------------------------------------------------------- SQL functions
\* X LIKE P in SQLite: % any run, _ any one character, ASCII case-insensitive
RECURSIVE Like(_, _)
Like(s, p) ==
    IF p = <<>> THEN s = <<>>
    ELSE IF Head(p) = "%"
         THEN Like(s, Tail(p)) \/ (s # <<>> /\ Like(Tail(s), p))
    ELSE IF s = <<>> THEN FALSE
    ELSE /\ (Head(p) = "_" \/ Upper(Head(p)) = Upper(Head(s)))
         /\ Like(Tail(s), Tail(p))

\* substr(X, -4): the last 4 characters, the whole of a shorter X
SubstrLast4(s) == IF Len(s) <= 4 THEN s ELSE SubSeq(s, Len(s) - 3, Len(s))

RECURSIVE DigitPrefixValue(_, _)
DigitPrefixValue(s, acc) ==
    IF s = <<>> \/ Head(s) \notin Digits THEN acc
    ELSE DigitPrefixValue(Tail(s), acc * 10 + DigitVal(Head(s)))

\* CAST(text AS INTEGER) in SQLite: the longest integer prefix, 0 if none
CastInteger(s) ==
    IF s = <<>> THEN 0
    ELSE IF Head(s) = "-" THEN 0 - DigitPrefixValue(Tail(s), 0)
    ELSE IF Head(s) = "+" THEN DigitPrefixValue(Tail(s), 0)
    ELSE DigitPrefixValue(s, 0)

\* Bytewise comparison of TEXT under the BINARY collation.
RECURSIVE TextLess(_, _)
TextLess(x, y) ==
    IF y = <<>> THEN FALSE
    ELSE IF x = <<>> THEN TRUE
    ELSE IF Head(x) = Head(y) THEN TextLess(Tail(x), Tail(y))
    ELSE Ord(Head(x)) < Ord(Head(y))

\* ORDER BY BoxID
RECURSIVE OrderByBoxID(_)
OrderByBoxID(ids) ==
    IF ids = {} THEN <<>>
    ELSE LET first == CHOOSE x \in ids : \A y \in ids \ {x} : TextLess(x, y)
         IN  <<first>> \o OrderByBoxID(ids \ {first})

\* ------------------------------------------------------------- q() queries
\* q("SELECT BoxID FROM boxid_log WHERE BoxID LIKE ? || '%' AND
\*    CAST(substr(BoxID, -4) AS INTEGER) BETWEEN ? AND ? ORDER BY BoxID").
\* On Postgres q() rewrites ? to %s and passes the parameters to psycopg2,
\* which rejects the bare % of '%': q() raises HTTPException(500).
QRange(pg, log, prefix, start, end) ==
    IF pg THEN [ok |-> FALSE, rows |-> <<>>]
    ELSE [ok |-> TRUE,
          rows |-> OrderByBoxID(
              {b \in DOMAIN log :
                  /\ log[b] # NoRow
                  /\ Like(b, prefix \o <<"%">>)
                  /\ CastInteger(SubstrLast4(b)) >= start
                  /\ CastInteger(SubstrLast4(b)) <= end})]

\* cur = q("SELECT Location FROM boxid_log WHERE BoxID=? LIMIT 1");
\* cur_loc = cur[0]["Location"] if cur else None.  Postgres names the column
\* "location" in the row dict, so the subscript raises KeyError there.
QCurLoc(pg, log, b) ==
    IF log[b] = NoRow THEN NULL
    ELSE IF pg THEN Error
    ELSE log[b]

\* if cur_loc: move_location(...) else: assign_initial_location(..., "INITIAL")
MoveOrAssign(db, b, cur_loc, to_loc, operator, reason) ==
    IF Truthy(cur_loc)
    THEN move_location(db, b, to_loc, operator, reason)
    ELSE assign_initial_location(db, b, to_loc, operator, "INITIAL")

\* ------------------------------------------------------------ move_by_range
\* The for loop of move_by_range: no try, the first exception ends it.
RECURSIVE RangeLoop(_, _, _, _, _, _)
RangeLoop(st, rows, i, to_loc, operator, reason) ==
    IF i > Len(rows) \/ st.status # 200 THEN st
    ELSE LET cur_loc == QCurLoc(USE_PG, st.db.boxid_log, rows[i])
             db2 == MoveOrAssign(st.db, rows[i], cur_loc, to_loc, operator, reason)
         IN  IF cur_loc = Error THEN [st EXCEPT !.status = 500]
             ELSE IF Raised(db2) THEN [st EXCEPT !.status = 500, !.db = db2]
             ELSE RangeLoop([st EXCEPT !.db = db2, !.moved = @ + 1,
                                       !.order = Append(@, rows[i])],
                            rows, i + 1, to_loc, operator, reason)

move_by_range(db, boxid, start, end, to_loc, operator, reason) ==
    LET prefix == prefix_from_boxid(boxid)
        res == QRange(USE_PG, db.boxid_log, prefix, start, end)
        st0 == [db |-> db, status |-> 200, moved |-> 0, order |-> <<>>,
                fails |-> <<>>]
    IN  IF ~res.ok THEN [st0 EXCEPT !.status = 500]
        ELSE IF res.rows = <<>> THEN [st0 EXCEPT !.status = 404]
        ELSE RangeLoop(st0, res.rows, 1, to_loc, operator, reason)

\* ---------------------------------------------------------------- move_bulk
\* The for loop of move_bulk: every exception of an item is caught and
\* recorded.  down holds the positions at which the storage is unavailable.
RECURSIVE BulkLoop(_, _, _, _, _, _, _)
BulkLoop(st, boxids, i, down, to_loc, operator, reason) ==
    IF i > Len(boxids) THEN st
    ELSE LET b == boxids[i]
             cur_loc == IF i \in down THEN Error
                        ELSE QCurLoc(USE_PG, st.db.boxid_log, b)
             db2 == MoveOrAssign(st.db, b, cur_loc, to_loc, operator, reason)
             seen == [st EXCEPT !.order = Append(@, b)]
         IN  IF cur_loc = Error
             THEN BulkLoop([seen EXCEPT !.fails = Append(@, i)],
                           boxids, i + 1, down, to_loc, operator, reason)
             ELSE IF Raised(db2)
             THEN BulkLoop([seen EXCEPT !.fails = Append(@, i), !.db = db2],
                           boxids, i + 1, down, to_loc, operator, reason)
             ELSE BulkLoop([seen EXCEPT !.db = db2, !.moved = @ + 1],
                           boxids, i + 1, down, to_loc, operator, reason)

move_bulk(db, boxids, down, to_loc, operator, reason) ==
    LET st0 == [db |-> db, status |-> 200, moved |-> 0, order |-> <<>>,
                fails |-> <<>>]
    IN  IF boxids = <<>> THEN [st0 EXCEPT !.status = 400]
        ELSE BulkLoop(st0, boxids, 1, down, to_loc, operator, reason)

\* ------------------------------------------------------------ initial state
NoReq == [kind |-> "none", boxid |-> <<>>, start |-> 0, end |-> 0,
          boxids |-> <<>>, to_loc |-> "L1", reason |-> "MOVE", count |-> 0]

NoResp == [req |-> NoReq, status |-> 0, moved |-> 0, fails |-> <<>>,
           order |-> <<>>,
           before |-> [boxid_log |-> <<>>, boxes |-> <<>>, move_log |-> {},
                       next_id |-> 1, done |-> <<>>]]

InitCommon ==
    /\ USE_PG \in BOOLEAN
    /\ schema \in Schemas
    /\ USE_PG = FALSE => schema = [table |-> FALSE, idcol |-> FALSE, loccol |-> FALSE]
    /\ move_log = {}
    /\ next_id = 1
    /\ done = <<>>
    /\ resp = NoResp
    /\ tx = [c \in Callers |-> IdleTx]
    /\ wlock = NoCaller
    /\ write_order = <<>>

\* boxid_log is filled by the labelling tools before the API sees a box.
Init ==
    /\ InitCommon
    /\ boxid_log \in [BoxIds -> {NoRow} \cup StoredLocs]
    /\ boxes \in [BoxIds -> {NoRow} \cup StoredLocs]
    /\ \A b \in BoxIds \ StoreIds : boxid_log[b] = NoRow /\ boxes[b] = NoRow
    \* each backend has its own table of current locations
    /\ \A b \in BoxIds : IF USE_PG THEN boxid_log[b] = NoRow
                                   ELSE boxes[b] = NoRow
    /\ \A b \in BoxIds : ~TableUsable(schema) => boxes[b] = NoRow

\* ------------------------------------------------- sequential ledger calls
AssignInitial ==
    \E b \in StoreIds, to_loc \in Locs :
        /\ Len(done) < MaxCalls
        /\ Commit(assign_initial_location(DB, b, to_loc, OPERATOR, "INITIAL"))
        /\ UNCHANGED <<USE_PG, schema, resp, tx, wlock, write_order>>

Move ==
    \E b \in StoreIds, to_loc \in Locs :
        /\ Len(done) < MaxCalls
        /\ Commit(move_location(DB, b, to_loc, OPERATOR, ""))
        /\ UNCHANGED <<USE_PG, schema, resp, tx, wlock, write_order>>

Next == AssignInitial \/ Move

Spec == Init /\ [][Next]_vars


\* -------------------------------------------------------- resolver requests
\* reason of a request: the MoveRangeIn / MoveBulkIn default, or empty
Reasons == {"MOVE", ""}
ScanIds == {A0001, a0002}
BulkIds == {A0001, AABCD}
BulkLists == UNION {[1..n -> BulkIds] : n \in 0..MaxBulk}

InitResolver ==
    /\ InitCommon
    /\ boxes = [b \in BoxIds |-> NoRow]
    /\ USE_PG => schema.idcol = schema.loccol
    /\ boxid_log \in [BoxIds -> {NoRow, NULL}]

Respond(req, st, before) ==
    resp' = [req |-> req, status |-> st.status, moved |-> st.moved,
             fails |-> st.fails, order |-> st.order, before |-> before]

MoveByRange ==
    \E boxid \in ScanIds, start \in 0..MaxSerial, end \in 0..MaxSerial,
       to_loc \in Locs, reason \in Reasons :
        LET st == move_by_range(DB, boxid, start, end, to_loc, OPERATOR, reason)
        IN  /\ resp.req.count < MaxReq
            /\ Commit(st.db)
            /\ Respond([kind |-> "range", boxid |-> boxid, start |-> start,
                        end |-> end, boxids |-> <<>>, to_loc |-> to_loc,
                        reason |-> reason, count |-> resp.req.count + 1],
                       st, DB)
            /\ UNCHANGED <<USE_PG, schema, tx, wlock, write_order>>

MoveBulk ==
    \E boxids \in BulkLists, to_loc \in Locs, reason \in Reasons :
      \E down \in SUBSET (1..Len(boxids)) :
        LET st == move_bulk(DB, boxids, down, to_loc, OPERATOR, reason)
        IN  /\ resp.req.count < MaxReq
            /\ Commit(st.db)
            /\ Respond([kind |-> "bulk", boxid |-> <<>>, start |-> 0,
                        end |-> 0, boxids |-> boxids, to_loc |-> to_loc,
                        reason |-> reason, count |-> resp.req.count + 1],
                       st, DB)
            /\ UNCHANGED <<USE_PG, schema, tx, wlock, write_order>>

NextResolver == MoveByRange \/ MoveBulk

SpecResolver == InitResolver /\ [][NextResolver]_vars


\* ------------------------------------------------- concurrent ledger calls
\* Each caller runs assign_initial_location / move_location statement by
\* statement on its own connection.  move_log, boxid_log and boxes hold the
\* committed rows, which is what every other connection reads; a caller's
\* own writes stay in tx[c] until its commit.
InitConc ==
    /\ InitCommon
    /\ boxes = [b \in BoxIds |-> NoRow]
    /\ boxid_log \in [BoxIds -> {NoRow, NULL, "L1"}]
    /\ \A b \in BoxIds \ {A0001} : boxid_log[b] = NoRow

ConcIds == {A0001}

\* sqlite3.connect(DB_PATH) / psycopg2.connect(PG_URL): one more connection
\* is open.
_conn_sqlite(n) == n + 1

_conn_pg(n) == n + 1

\* Leaving the call, by return or by exception.  The Postgres functions run
\* conn.close() in a finally block; the SQLite functions leave a
\* "with connection" block, which commits or rolls back and closes nothing.
ExitCall(pg, n) == IF pg THEN n - 1 ELSE n

\* Connections open in the process.
OpenConnections == tx["c1"].conns + tx["c2"].conns

\* now = _now_str(); the connection is opened
Start(c) ==
    \E kind \in {"assign", "move"}, b \in ConcIds, to_loc \in Locs :
        /\ tx[c].pc \in {"idle", "done", "failed"}
        /\ tx[c].calls < MaxTxCalls
        /\ tx' = [tx EXCEPT ![c] =
              [IdleTx EXCEPT !.pc = IF USE_PG THEN "init" ELSE "read",
                             !.kind = kind, !.boxid = b, !.to_loc = to_loc,
                             !.reason = IF kind = "assign" THEN "INITIAL" ELSE "",
                             !.calls = tx[c].calls + 1,
                             !.conns = IF USE_PG THEN _conn_pg(tx[c].conns)
                                       ELSE _conn_sqlite(tx[c].conns),
                             !.opened = 1]]
        /\ UNCHANGED <<USE_PG, schema, boxid_log, boxes, move_log, next_id,
                       done, resp, wlock, write_order>>

\* init_move_tables(): conn = _conn_pg(), CREATE ... IF NOT EXISTS, commit,
\* and conn.close() in its finally block: a second connection of the call,
\* opened and closed within this step.
InitMoveTables(c) ==
    /\ tx[c].pc = "init"
    /\ tx' = [tx EXCEPT ![c].pc = "read",
                        ![c].conns = ExitCall(TRUE, _conn_pg(tx[c].conns)),
                        ![c].opened = tx[c].opened + 1]
    /\ UNCHANGED <<USE_PG, schema, boxid_log, boxes, move_log, next_id, done,
                   resp, wlock, write_order>>

\* from_loc = the committed current location
ReadLoc(c) ==
    /\ tx[c].pc = "read"
    /\ tx' = [tx EXCEPT ![c].pc = "insert",
                        ![c].from_loc =
                            ReadFromLoc(USE_PG, schema, boxid_log, boxes,
                                        tx[c].boxid)]
    /\ UNCHANGED <<USE_PG, schema, boxid_log, boxes, move_log, next_id, done,
                   resp, wlock, write_order>>

\* INSERT INTO the history table.  On SQLite the first write statement opens
\* the transaction and needs the database write lock.
InsertLog(c) ==
    /\ tx[c].pc = "insert"
    /\ tx[c].from_loc # Error
    /\ USE_PG \/ wlock \in {NoCaller, c}
    /\ wlock' = IF USE_PG THEN wlock ELSE c
    /\ tx' = [tx EXCEPT ![c].pc = "write", ![c].row_id = next_id,
                        ![c].wrote_log = TRUE]
    /\ next_id' = next_id + 1
    /\ UNCHANGED <<USE_PG, schema, boxid_log, boxes, move_log, done, resp,
                   write_order>>

\* Another caller holds an uncommitted write of the same boxes row.
RowLocked(c) ==
    \E o \in Callers \ {c} :
        tx[o].wrote_loc /\ tx[o].pc = "commit" /\ tx[o].boxid = tx[c].boxid

\* UPDATE boxid_log ... (SQLite) / _upsert_location_pg (Postgres)
WriteLoc(c) ==
    /\ tx[c].pc = "write"
    /\ IF USE_PG
       THEN LET up == _upsert_location_pg(schema, boxes, tx[c].boxid,
                                          tx[c].to_loc)
            IN  /\ up.ok
                /\ IF ~up.wrote
                   THEN /\ tx' = [tx EXCEPT ![c].pc = "commit"]
                        /\ UNCHANGED write_order
                   ELSE /\ ~RowLocked(c)
                        /\ tx' = [tx EXCEPT ![c].pc = "commit",
                                            ![c].wrote_loc = TRUE]
                        /\ write_order' = Append(write_order, c)
       ELSE /\ tx' = [tx EXCEPT ![c].pc = "commit", ![c].wrote_loc = TRUE]
            /\ write_order' = Append(write_order, c)
    /\ UNCHANGED <<USE_PG, schema, boxid_log, boxes, move_log, next_id, done,
                   resp, wlock>>

TxRow(c) ==
    LogRow(tx[c].row_id, tx[c].boxid, tx[c].from_loc, tx[c].to_loc, OPERATOR,
           StoredReason(USE_PG, tx[c].kind, tx[c].reason))

TxRecord(c, ok) ==
    [kind |-> tx[c].kind, boxid |-> tx[c].boxid, to_loc |-> tx[c].to_loc,
     reason |-> tx[c].reason, ok |-> ok,
     pre_loc |-> StoredLocation(USE_PG, boxid_log, boxes, tx[c].boxid),
     row_id |-> IF ok THEN tx[c].row_id ELSE 0]

\* conn.commit() / leaving the with block: both writes become visible
CommitTx(c) ==
    /\ tx[c].pc = "commit"
    /\ move_log' = move_log \cup {TxRow(c)}
    /\ IF USE_PG
       THEN /\ boxes' = IF tx[c].wrote_loc
                        THEN PgUpsert(schema, boxes, tx[c].boxid,
                                      tx[c].to_loc).rows
                        ELSE boxes
            /\ UNCHANGED boxid_log
       ELSE /\ boxid_log' = SqliteUpdateLocation(boxid_log, tx[c].boxid,
                                                 tx[c].to_loc)
            /\ UNCHANGED boxes
    /\ wlock' = IF wlock = c THEN NoCaller ELSE wlock
    /\ tx' = [tx EXCEPT ![c].pc = "done",
                        ![c].conns = ExitCall(USE_PG, tx[c].conns)]
    /\ done' = Append(done, TxRecord(c, TRUE))
    /\ UNCHANGED <<USE_PG, schema, next_id, resp, write_order>>

\* A statement raises (connection lost, lock timeout, missing relation):
\* rollback, then the exception leaves the call.
Fail(c) ==
    /\ tx[c].pc \in {"init", "read", "insert", "write", "commit"}
    /\ wlock' = IF wlock = c THEN NoCaller ELSE wlock
    \* the SQLite rollback also restores the AUTOINCREMENT counter
    /\ next_id' = IF ~USE_PG /\ tx[c].wrote_log THEN tx[c].row_id ELSE next_id
    /\ tx' = [tx EXCEPT ![c].pc = "failed", ![c].wrote_log = FALSE,
                        ![c].wrote_loc = FALSE,
                        ![c].conns = ExitCall(USE_PG, tx[c].conns)]
    \* the rolled-back statement no longer counts as a write
    /\ write_order' = IF tx[c].wrote_loc
                      THEN SubSeq(write_order, 1, Len(write_order) - 1)
                      ELSE write_order
    /\ done' = Append(done, TxRecord(c, FALSE))
    /\ UNCHANGED <<USE_PG, schema, boxid_log, boxes, move_log, resp>>

\* The interpreter finalises a sqlite3 connection object that the finished
\* call left unreferenced; when that happens is up to the runtime.
Collect(c) ==
    /\ ~USE_PG
    /\ tx[c].pc \in {"done", "failed"}
    /\ tx[c].conns > 0
    /\ tx' = [tx EXCEPT ![c].conns = tx[c].conns - 1]
    /\ UNCHANGED <<USE_PG, schema, boxid_log, boxes, move_log, next_id, done,
                   resp, wlock, write_order>>

NextConc ==
    \E c \in Callers :
        \/ Start(c)
        \/ InitMoveTables(c)
        \/ ReadLoc(c)
        \/ InsertLog(c)
        \/ WriteLoc(c)
        \/ CommitTx(c)
        \/ Fail(c)
        \/ Collect(c)

SpecConc == InitConc /\ [][NextConc]_vars

\* =================================================================== claims
\* Successful ledger calls on box b, oldest first.
CallsOn(b) == SelectSeq(done, LAMBDA d : d.boxid = b /\ d.ok)

RowById(id) == CHOOSE r \in move_log : r.id = id

SchemaMissing == ~TableUsable(schema)

\* C1: for a box with no box record and no history, assign_initial_location
\* followed by get_current_location returns the assigned location, and
\* get_move_history returns exactly one entry, From null and To the location.
C1_AssignUnseenThenRead ==
    \A b \in BoxIds :
        LET calls == CallsOn(b)
            h == get_move_history(b, DEFAULT_LIMIT)
        IN  (/\ Len(calls) = 1
             /\ calls[1].kind = "assign"
             /\ calls[1].pre_loc = NoRow)
            => /\ get_current_location(b) = calls[1].to_loc
               /\ Len(h) = 1
               /\ h[1].From = NULL
               /\ h[1].To = calls[1].to_loc

\* C2: after N successful sequential calls on a box, get_move_history(id, N)
\* returns exactly N entries, most recent call first, and the To of the entry
\* written by the last call equals get_current_location(id).
C2_HistoryOfNCalls ==
    \A b \in BoxIds :
        LET calls == CallsOn(b)
            N == Len(calls)
            h == get_move_history(b, N)
        IN  N >= 1 =>
              /\ Len(h) = N
              /\ \A i \in 1..N :
                    /\ h[i].To = RowById(calls[N + 1 - i].row_id).To
                    /\ h[i].To = calls[N + 1 - i].to_loc
              /\ RowById(calls[N].row_id).To = get_current_location(b)

\* The successful call on the same box that precedes call i, or 0.
PrevCallOn(i) ==
    LET earlier == {j \in 1..(i - 1) :
                        done[j].ok /\ done[j].boxid = done[i].boxid}
    IN  IF earlier = {} THEN 0
        ELSE CHOOSE j \in earlier : \A k \in earlier : k <= j

\* C3: a successful move_location on a box whose current location is P
\* (non-empty) appends an entry with From = P; hence in a sequential run that
\* From equals the To of the previous entry of the same box.
C3_MoveFromIsPrior ==
    \A i \in 1..Len(done) :
        (done[i].kind = "move" /\ done[i].ok /\ Truthy(done[i].pre_loc))
        => /\ RowById(done[i].row_id).From = done[i].pre_loc
           /\ PrevCallOn(i) # 0 =>
                RowById(done[i].row_id).From
                    = RowById(done[PrevCallOn(i)].row_id).To

C3_Witness ==
    \E i \in 1..Len(done) :
        /\ done[i].kind = "move" /\ done[i].ok /\ Truthy(done[i].pre_loc)
        /\ PrevCallOn(i) # 0
        /\ RowById(done[i].row_id).From = "L1"
        /\ RowById(done[i].row_id).To = "L2"

\* C10: on Postgres, when the boxes table or its id/location column is
\* missing, every assign/move call succeeds, appends exactly one history
\* entry with From null, writes no current location, and
\* get_current_location returns absent.
C10_MissingBoxesTable ==
    (USE_PG /\ SchemaMissing)
    => /\ \A i \in 1..Len(done) :
            /\ done[i].ok
            /\ Cardinality({r \in move_log : r.id = done[i].row_id}) = 1
            /\ RowById(done[i].row_id).BoxID = done[i].boxid
            /\ RowById(done[i].row_id).To = done[i].to_loc
            /\ RowById(done[i].row_id).From = NULL
       /\ Cardinality(move_log) = Len(done)
       /\ \A b \in BoxIds : boxes[b] = NoRow /\ get_current_location(b) = NULL

C10_Witness ==
    /\ USE_PG /\ ~schema.table
    /\ \E i, j \in 1..Len(done) :
          /\ done[i].kind = "assign" /\ done[j].kind = "move"
          /\ i < j /\ done[i].boxid = done[j].boxid
          /\ done[i].to_loc = "L1" /\ done[j].ok

\* ------------------------------------------------------- resolver claims
\* The trailing 4 characters are all decimal digits.
IsNumeric4(b) ==
    Len(b) >= 4 /\ \A i \in (Len(b) - 3)..Len(b) : b[i] \in Digits

\* The trailing 4 digits read as a decimal number.
SerialOf(b) == DigitPrefixValue(SubSeq(b, Len(b) - 3, Len(b)), 0)

IsAscending(ids) ==
    \A i \in 1..(Len(ids) - 1) : TextLess(ids[i], ids[i + 1])

NothingWritten ==
    /\ boxid_log = resp.before.boxid_log
    /\ boxes = resp.before.boxes
    /\ move_log = resp.before.move_log

\* C6: move_by_range moves exactly the known boxes whose id starts with
\* prefix_from_boxid(boxid) and whose trailing 4-character serial, as an
\* integer, lies in [start, end]; it leaves every other box unchanged,
\* processes the boxes in ascending BoxID order and returns their number as
\* moved; when no box matches it answers not-found and writes nothing.
C6_RangeMovesExactlyMatches ==
    resp.req.kind = "range" =>
        LET r == resp.req
            pre == resp.before
            want == {b \in BoxIds :
                        /\ pre.boxid_log[b] # NoRow
                        /\ StartsWith(b, prefix_from_boxid(r.boxid))
                        /\ IsNumeric4(b)
                        /\ SerialOf(b) >= r.start /\ SerialOf(b) <= r.end}
        IN  IF want = {}
            THEN resp.status = 404 /\ NothingWritten
            ELSE /\ resp.status = 200
                 /\ resp.moved = Cardinality(want)
                 /\ {resp.order[i] : i \in 1..Len(resp.order)} = want
                 /\ Len(resp.order) = Cardinality(want)
                 /\ IsAscending(resp.order)
                 /\ \A b \in want :
                        /\ get_current_location(b) = r.to_loc
                        /\ Cardinality(RowsOf(move_log, b))
                             = Cardinality(RowsOf(pre.move_log, b)) + 1
                 /\ \A b \in BoxIds \ want :
                        /\ boxid_log[b] = pre.boxid_log[b]
                        /\ boxes[b] = pre.boxes[b]
                        /\ RowsOf(move_log, b) = RowsOf(pre.move_log, b)

\* C7: in move_by_range a box id whose trailing 4 characters are not numeric
\* is never matched, whatever start and end are, and its presence under the
\* prefix never makes the request fail.
C7_NonNumericNeverMatched ==
    resp.req.kind = "range" =>
        /\ \A b \in BoxIds :
              (/\ resp.before.boxid_log[b] # NoRow
               /\ StartsWith(b, prefix_from_boxid(resp.req.boxid))
               /\ ~IsNumeric4(b))
              => /\ \A i \in 1..Len(resp.order) : resp.order[i] # b
                 /\ RowsOf(move_log, b) = RowsOf(resp.before.move_log, b)
                 /\ resp.status \in {200, 404}

\* C8: move_bulk over a non-empty list processes every id in list order,
\* never raises for a failing item, returns moved and fails with
\* moved + len(fails) = len(boxids), and every id counted in moved has one
\* new history entry (per counted occurrence) and to_loc as current location.
C8_BulkPartialFailure ==
    (resp.req.kind = "bulk" /\ resp.req.boxids # <<>>) =>
        LET ids == resp.req.boxids
            failed == {resp.fails[k] : k \in 1..Len(resp.fails)}
            okpos == (1..Len(ids)) \ failed
        IN  /\ resp.status = 200
            /\ resp.order = ids
            /\ resp.moved + Len(resp.fails) = Len(ids)
            /\ resp.moved = Cardinality(okpos)
            /\ \A i \in okpos :
                  /\ Cardinality(RowsOf(move_log, ids[i]))
                       = Cardinality(RowsOf(resp.before.move_log, ids[i]))
                         + Cardinality({j \in okpos : ids[j] = ids[i]})
                  /\ get_current_location(ids[i]) = resp.req.to_loc

\* C9: the resolver calls move_location with the caller's reason when the
\* box has a current location (the one the ledger last wrote), and
\* assign_initial_location with reason "INITIAL" otherwise; hence a history
\* entry has reason "INITIAL" only if its From is null.
C9_InitialOnlyWithoutLocation ==
    /\ \A i \in (Len(resp.before.done) + 1)..Len(done) :
          done[i].ok =>
             IF Truthy(done[i].pre_loc)
             THEN done[i].kind = "move" /\ done[i].reason = resp.req.reason
             ELSE done[i].kind = "assign" /\ done[i].reason = "INITIAL"
    /\ \A r \in move_log : r.Reason = "INITIAL" => r.From = NULL

\* ----------------------------------------------------- concurrency claims
RowVisible(c) == \E r \in move_log : r.id = tx[c].row_id /\ r.BoxID = tx[c].boxid

\* C4: the history insert and the current-location write of one call are
\* atomic: a step that makes the call's history entry visible also makes its
\* to_loc the visible current location, no step shows one without the other,
\* and a failing call leaves the store unchanged.
C4_AtomicCall ==
    [][\A c \in Callers :
          /\ (~RowVisible(c) /\ RowVisible(c)')
                => get_current_location(tx[c].boxid)' = tx[c].to_loc
          /\ (tx[c].pc # "failed" /\ tx'[c].pc = "failed")
                => /\ move_log' = move_log
                   /\ boxid_log' = boxid_log
                   /\ boxes' = boxes
          /\ (boxid_log' # boxid_log \/ boxes' # boxes)
                => move_log' # move_log]_vars

\* C5: when two callers run move_location on the same box concurrently and
\* both succeed, both history entries persist, and the current location is
\* the to_loc of the call whose location write completed last.
C5_LastWriteWins ==
    \A c1, c2 \in Callers :
        (/\ c1 # c2
         /\ tx[c1].pc = "done" /\ tx[c2].pc = "done"
         /\ tx[c1].kind = "move" /\ tx[c2].kind = "move"
         /\ tx[c1].boxid = tx[c2].boxid)
        => /\ RowVisible(c1) /\ RowVisible(c2)
           /\ tx[c1].row_id # tx[c2].row_id
           /\ write_order # <<>> =>
                 get_current_location(tx[c1].boxid)
                     = tx[write_order[Len(write_order)]].to_loc

\* ------------------------------------------------------------- read claims
\* C12: get_current_location returns absent (None) whenever the box has no
\* record or its stored Location is null or the empty string, and the stored
\* Location otherwise, on both backends.
C12_AbsentWhenNoneOrEmpty ==
    \A b \in BoxIds :
        LET stored == StoredLocation(USE_PG, boxid_log, boxes, b)
        IN  IF stored \in {NoRow, NULL, ""}
            THEN get_current_location(b) = NULL
            ELSE get_current_location(b) = stored

\* ------------------------------------------------------- connection claims
\* C11: each assign_initial_location / move_location call acquires exactly
\* one storage connection and has released every connection it opened by the
\* time it returns or raises, on both backends; after any sequence of
\* successful and failing calls no connection is open.
C11_OneConnectionReleased ==
    /\ \A c \in Callers :
          /\ tx[c].pc # "idle" => tx[c].opened = 1
          /\ tx[c].pc \in {"done", "failed"} => tx[c].conns = 0
    /\ (\A c \in Callers : tx[c].pc \in {"idle", "done", "failed"})
          => OpenConnections = 0
====
